---- MODULE Spec2Model ----
(***************************************************************************)
(* Ledger of dated account entries: the four request handlers of           *)
(* /api/entries (GET, POST) and /api/entries/[id] (PUT, DELETE) over the   *)
(* "entries" collection, and the client-side search of the statement       *)
(* component.                                                              *)
(*                                                                         *)
(* JavaScript values are records [t, n, s]: t is the type tag, n the       *)
(* numeric payload, s the string payload as a sequence of UTF-16 code      *)
(* units (32 = space, 48..57 = digits, 65..90 = A..Z, 97..122 = a..z).     *)
(* A document is a record whose DOMAIN is the set of fields it carries.    *)
(***************************************************************************)
EXTENDS Integers, Sequences, FiniteSets, TLC

VARIABLES store, nextId, now, inbox, lastResp,
          entries, exportFilters, filteredEntries, lastEvent, exported,
          currentView, loading, saving,
          requests, serving, responses, nextRid, failed

vars == <<store, nextId, now, inbox, lastResp,
          entries, exportFilters, filteredEntries, lastEvent, exported,
          currentView, loading, saving,
          requests, serving, responses, nextRid, failed>>

serverVars == <<store, nextId, now, inbox, lastResp>>

\* the component's view and flags, its fetches on their way to the server
\* (requests), the one the server is handling (serving), the responses on
\* their way back, the number of the next fetch, and whether a response that
\* was not ok has come back
sessionVars == <<currentView, loading, saving,
                 requests, serving, responses, nextRid, failed>>

\* lastEvent records the handler of the export view that ran last ("none"
\* before); exported is the text last handed to the download or to the share
\* link
clientVars == <<entries, exportFilters, filteredEntries, lastEvent, exported,
                currentView, loading, saving,
                requests, serving, responses, nextRid, failed>>

(***************************************************************************)
(* Bounds                                                                  *)
(***************************************************************************)
\* number of writes to the collection that read the clock (insertOne, updateOne)
MaxClock == 3

\* number of documents in the collection
MaxDocs == 2

\* number of entries in the list the client searches
MaxEntries == 3

\* number of fetches the component issues
MaxRequests == 4

(***************************************************************************)
(* JavaScript values                                                       *)
(***************************************************************************)
Undef == [t |-> "undefined", n |-> 0, s |-> <<>>]

Null == [t |-> "null", n |-> 0, s |-> <<>>]

NaN == [t |-> "NaN", n |-> 0, s |-> <<>>]

Num(k) == [t |-> "number", n |-> k, s |-> <<>>]

Str(q) == [t |-> "string", n |-> 0, s |-> q]

Date(k) == [t |-> "date", n |-> k, s |-> <<>>]

\* ToBoolean, as applied by !x and x || y
Truthy(v) ==
    CASE v.t = "number" -> v.n # 0
      [] v.t = "string" -> v.s # <<>>
      [] v.t = "date"   -> TRUE
      [] OTHER          -> FALSE

IsSpace(c) == c = 32

IsDigit(c) == c \in 48..57

RECURSIVE TrimStart(_)
TrimStart(q) ==
    IF q # <<>> /\ IsSpace(Head(q)) THEN TrimStart(Tail(q)) ELSE q

RECURSIVE TrimEnd(_)
TrimEnd(q) ==
    IF q # <<>> /\ IsSpace(q[Len(q)]) THEN TrimEnd(SubSeq(q, 1, Len(q) - 1)) ELSE q

RECURSIVE DecimalValue(_)
DecimalValue(q) ==
    IF q = <<>> THEN 0
    ELSE 10 * DecimalValue(SubSeq(q, 1, Len(q) - 1)) + (q[Len(q)] - 48)

\* Number(v): StringToNumber trims white space, reads "" as 0 and a run of
\* decimal digits as its value; any other text of the alphabet is NaN.
ToNumber(v) ==
    CASE v.t = "number" -> v
      [] v.t = "NaN"    -> NaN
      [] v.t = "null"   -> Num(0)
      [] v.t = "date"   -> Num(v.n)
      [] v.t = "string" ->
            LET q == TrimEnd(TrimStart(v.s))
            IN  IF \A i \in 1..Len(q) : IsDigit(q[i])
                THEN Num(DecimalValue(q)) ELSE NaN
      [] OTHER          -> NaN

\* Number(x) || 0
NumberOrZero(v) == IF Truthy(ToNumber(v)) THEN ToNumber(v) ELSE Num(0)

\* a + b and a - b on numbers; undefined converts to NaN, NaN is absorbing
JsAdd(a, b) ==
    LET x == ToNumber(a)
        y == ToNumber(b)
    IN  IF x.t = "NaN" \/ y.t = "NaN" THEN NaN ELSE Num(x.n + y.n)

JsSub(a, b) ==
    LET x == ToNumber(a)
        y == ToNumber(b)
    IN  IF x.t = "NaN" \/ y.t = "NaN" THEN NaN ELSE Num(x.n - y.n)

\* JSON.stringify of a value inside an object: NaN is written as null
ToJSON(v) == IF v.t = "NaN" THEN Null ELSE v

\* entry.f: a field the object does not carry reads as undefined
Field(d, f) == IF f \in DOMAIN d THEN d[f] ELSE Undef

\* code-unit order of two strings (a <= b)
StrLe(a, b) ==
    \/ /\ Len(a) <= Len(b)
       /\ \A i \in 1..Len(a) : a[i] = b[i]
    \/ \E k \in 1..Len(a) :
          /\ k <= Len(b)
          /\ \A i \in 1..(k - 1) : a[i] = b[i]
          /\ a[k] < b[k]

(***************************************************************************)
(* Caller-supplied inputs                                                  *)
(***************************************************************************)
\* "1" and "2": date strings
DateInputs == {Str(<<49>>), Str(<<50>>)}

\* absent, "", "A", "b"
ParticularsInputs == {Undef, Str(<<>>), Str(<<65>>), Str(<<98>>)}

\* the amount fields and balance of a request body:
\*   nothing filled in; debitCountry " 7", debit "40" and a balance of 5;
\*   credit "100"; debit "0"; debit "a" with credit 0
NothingFilled ==
    [debitCountry |-> Undef, debit |-> Undef, creditCountry |-> Undef,
     credit |-> Undef, balance |-> Undef]

Debit40 ==
    [debitCountry |-> Str(<<32, 55>>), debit |-> Str(<<52, 48>>),
     creditCountry |-> Undef, credit |-> Undef, balance |-> Num(5)]

Credit100 ==
    [debitCountry |-> Undef, debit |-> Undef, creditCountry |-> Str(<<>>),
     credit |-> Str(<<49, 48, 48>>), balance |-> Undef]

DebitZeroText ==
    [debitCountry |-> Undef, debit |-> Str(<<48>>), creditCountry |-> Undef,
     credit |-> Undef, balance |-> Undef]

DebitNotANumber ==
    [debitCountry |-> Undef, debit |-> Str(<<97>>), creditCountry |-> Undef,
     credit |-> Num(0), balance |-> Undef]

AmountInputs == {NothingFilled, Debit40, Credit100, DebitZeroText, DebitNotANumber}

Body(date, particulars, amounts) ==
    [date |-> date, particulars |-> particulars,
     debitCountry |-> amounts.debitCountry, debit |-> amounts.debit,
     creditCountry |-> amounts.creditCountry, credit |-> amounts.credit,
     balance |-> amounts.balance]

Bodies ==
    {Body(d, p, a) : d \in DateInputs, p \in ParticularsInputs, a \in AmountInputs}

NoBody == Body(Undef, Undef, NothingFilled)

\* the text of an id in a request path: the 24 hex digits of ObjectId n, or
\* a text that is no ObjectId
IdText(k) == [hex |-> TRUE, n |-> k]

MalformedId == [hex |-> FALSE, n |-> 0]

IdInputs == {IdText(k) : k \in 1..MaxClock} \cup {MalformedId}

(***************************************************************************)
(* The "entries" collection                                                *)
(***************************************************************************)
\* ObjectId.toString()
ObjectIdToString(oid) == IdText(oid)

\* new ObjectId(text) throws on a text that is no ObjectId
ObjectIdThrows(text) == ~text.hex

ObjectIdOf(text) == text.n

\* BSON order of two sort keys: null/absent before numbers before strings
BsonRank(v) ==
    CASE v.t \in {"undefined", "null"} -> 0
      [] v.t \in {"number", "NaN"}     -> 1
      [] v.t = "string"                -> 2
      [] OTHER                         -> 3

BsonLe(a, b) ==
    \/ BsonRank(a) < BsonRank(b)
    \/ /\ BsonRank(a) = BsonRank(b)
       /\ CASE a.t = "string" -> StrLe(a.s, b.s)
            [] a.t \in {"number", "date"} -> a.n <= b.n
            [] OTHER -> TRUE

\* find({}).sort({ date: 1 }).toArray(): every arrangement of the documents
\* ascending by date; documents with equal dates come in any order
SortedByDate(docs) ==
    {f \in [1..Cardinality(docs) -> docs] :
        /\ \A i, j \in DOMAIN f : i # j => f[i] # f[j]
        /\ \A i, j \in DOMAIN f : i < j => BsonLe(Field(f[i], "date"), Field(f[j], "date"))}

(***************************************************************************)
(* Requests in flight and responses                                        *)
(***************************************************************************)
Request(kind, id, body) == [kind |-> kind, id |-> id, body |-> body]

NoRequest == Request("none", MalformedId, NoBody)

\* caught: what the handler's catch block logged ("none", "store": the driver
\* threw, "bson": new ObjectId threw)
Response(kind, status, list, caught) ==
    [kind |-> kind, status |-> status, body |-> list, caught |-> caught]

NoResponse == Response("none", 0, <<>>, "none")

\* the caller sends a request; the previous response has been consumed
Send(req) ==
    /\ inbox = NoRequest
    /\ inbox' = req
    /\ lastResp' = NoResponse
    /\ UNCHANGED <<store, nextId, now>>

(***************************************************************************)
(* GET /api/entries                                                        *)
(***************************************************************************)
\* a fold that forgets to carry the accumulator
entryDelta(sorted, k) ==
    IF k = 0 THEN Num(0)
    ELSE JsSub(JsAdd(Num(0), Field(sorted[k], "credit")), Field(sorted[k], "debit"))

\* the running balance after the first k entries of the sorted array
RECURSIVE runningBalance(_, _)
runningBalance(sorted, k) ==
    IF k = 0 THEN Num(0)
    ELSE JsSub(JsAdd(runningBalance(sorted, k - 1), Field(sorted[k], "credit")),
               Field(sorted[k], "debit"))

\* { ...entry, id: entry._id.toString(), balance: runningBalance, _id: undefined }
\* as NextResponse.json writes it
processedEntry(sorted, k) ==
    LET entry == sorted[k]
    IN  [f \in ((DOMAIN entry \ {"_id"}) \cup {"id", "balance"}) |->
            CASE f = "id"      -> ObjectIdToString(entry._id)
              [] f = "balance" -> ToJSON(runningBalance(sorted, k))
              [] OTHER         -> ToJSON(entry[f])]

processedEntries(sorted) ==
    [k \in 1..Len(sorted) |-> processedEntry(sorted, k)]

GET(storeFails) ==
    /\ inbox.kind = "GET"
    /\ inbox' = NoRequest
    /\ IF storeFails
       THEN lastResp' = Response("GET", 500, <<>>, "store")
       ELSE \E sorted \in SortedByDate(store) :
               lastResp' = Response("GET", 200, processedEntries(sorted), "none")
    /\ UNCHANGED <<store, nextId, now>>

(***************************************************************************)
(* POST /api/entries                                                       *)
(***************************************************************************)
\* !particulars || (!debit && !credit)
MissingRequiredFields(body) ==
    \/ ~Truthy(body.particulars)
    \/ ~Truthy(body.debit) /\ ~Truthy(body.credit)

\* an entry built by spreading the request body: { ...body, ...coerced }
newEntrySpreadingBody(body, oid, time) ==
    LET carried == {f \in {"balance"} : body[f] # Undef}
        coerced == [_id |-> oid,
                    date |-> body.date,
                    particulars |-> body.particulars,
                    debitCountry |-> NumberOrZero(body.debitCountry),
                    debit |-> NumberOrZero(body.debit),
                    creditCountry |-> NumberOrZero(body.creditCountry),
                    credit |-> NumberOrZero(body.credit),
                    createdAt |-> Date(time),
                    updatedAt |-> Date(time)]
    IN  [f \in (DOMAIN coerced \cup carried) |->
            IF f \in DOMAIN coerced THEN coerced[f] ELSE body[f]]

newEntry(body, oid, time) ==
    [_id |-> oid,
     date |-> body.date,
     particulars |-> body.particulars,
     debitCountry |-> NumberOrZero(body.debitCountry),
     debit |-> NumberOrZero(body.debit),
     creditCountry |-> NumberOrZero(body.creditCountry),
     credit |-> NumberOrZero(body.credit),
     createdAt |-> Date(time),
     updatedAt |-> Date(time)]

\* { ...newEntry, id: result.insertedId.toString(), _id: undefined }
createdEntry(doc) ==
    [f \in ((DOMAIN doc \ {"_id"}) \cup {"id"}) |->
        IF f = "id" THEN ObjectIdToString(doc._id) ELSE ToJSON(doc[f])]

POST(storeFails) ==
    /\ inbox.kind = "POST"
    /\ inbox' = NoRequest
    /\ IF MissingRequiredFields(inbox.body)
       THEN /\ lastResp' = Response("POST", 400, <<>>, "none")
            /\ UNCHANGED <<store, nextId, now>>
       ELSE IF storeFails
       THEN /\ lastResp' = Response("POST", 500, <<>>, "store")
            /\ UNCHANGED <<store, nextId, now>>
       ELSE LET doc == newEntry(inbox.body, nextId, now + 1)
            IN  /\ store' = store \cup {doc}
                /\ nextId' = nextId + 1
                /\ now' = now + 1
                /\ lastResp' = Response("POST", 201, <<createdEntry(doc)>>, "none")

(***************************************************************************)
(* PUT /api/entries/[id]                                                   *)
(***************************************************************************)
updateData(body, time) ==
    [date |-> body.date,
     particulars |-> body.particulars,
     debitCountry |-> NumberOrZero(body.debitCountry),
     debit |-> NumberOrZero(body.debit),
     creditCountry |-> NumberOrZero(body.creditCountry),
     credit |-> NumberOrZero(body.credit),
     updatedAt |-> Date(time)]

\* replaceOne semantics: the document becomes the data, keeping only _id
ReplaceFields(doc, data) ==
    [f \in ({"_id"} \cup DOMAIN data) |->
        IF f \in DOMAIN data THEN data[f] ELSE doc[f]]

\* { $set: data } on one document
SetFields(doc, data) ==
    [f \in (DOMAIN doc \cup DOMAIN data) |->
        IF f \in DOMAIN data THEN data[f] ELSE doc[f]]

\* updateOne with { upsert: true }: no match inserts the data under the id
updateOneUpsert(docs, oid, data) ==
    IF \E d \in docs : d._id = oid
    THEN {IF d._id = oid THEN SetFields(d, data) ELSE d : d \in docs}
    ELSE docs \cup {SetFields([_id |-> oid], data)}

\* updateOne({ _id }, { $set: data })
updateOne(docs, oid, data) ==
    {IF d._id = oid THEN SetFields(d, data) ELSE d : d \in docs}

matchedCount(docs, oid) == Cardinality({d \in docs : d._id = oid})

PUT(storeFails) ==
    /\ inbox.kind = "PUT"
    /\ inbox' = NoRequest
    /\ UNCHANGED nextId
    /\ IF MissingRequiredFields(inbox.body)
       THEN /\ lastResp' = Response("PUT", 400, <<>>, "none")
            /\ UNCHANGED <<store, now>>
       ELSE IF storeFails
       THEN /\ lastResp' = Response("PUT", 500, <<>>, "store")
            /\ UNCHANGED <<store, now>>
       ELSE IF ObjectIdThrows(inbox.id)
       THEN /\ lastResp' = Response("PUT", 500, <<>>, "bson")
            /\ UNCHANGED <<store, now>>
       ELSE /\ store' = updateOne(store, ObjectIdOf(inbox.id), updateData(inbox.body, now + 1))
            /\ IF matchedCount(store, ObjectIdOf(inbox.id)) = 0
               THEN /\ lastResp' = Response("PUT", 404, <<>>, "none")
                    /\ UNCHANGED now
               ELSE /\ lastResp' = Response("PUT", 200, <<>>, "none")
                    /\ now' = now + 1

(***************************************************************************)
(* DELETE /api/entries/[id]                                                *)
(***************************************************************************)
\* deleteOne({ _id })
deleteOne(docs, oid) == {d \in docs : d._id # oid}

deletedCount(docs, oid) == Cardinality(docs) - Cardinality(deleteOne(docs, oid))

DELETE(storeFails) ==
    /\ inbox.kind = "DELETE"
    /\ inbox' = NoRequest
    /\ UNCHANGED <<nextId, now>>
    /\ IF storeFails
       THEN /\ lastResp' = Response("DELETE", 500, <<>>, "store")
            /\ UNCHANGED store
       ELSE IF ObjectIdThrows(inbox.id)
       THEN /\ lastResp' = Response("DELETE", 500, <<>>, "bson")
            /\ UNCHANGED store
       ELSE /\ store' = deleteOne(store, ObjectIdOf(inbox.id))
            /\ IF deletedCount(store, ObjectIdOf(inbox.id)) = 0
               THEN lastResp' = Response("DELETE", 404, <<>>, "none")
               ELSE lastResp' = Response("DELETE", 200, <<>>, "none")

(***************************************************************************)
(* The server: an empty collection and any sequence of requests            *)
(***************************************************************************)
NoFilters == [particulars |-> <<>>, startDate |-> <<>>, endDate |-> <<>>]

NothingExported == [target |-> "none", text |-> <<>>]

\* no fetch is being handled
NoCall == [rid |-> 0, from |-> "none", req |-> NoRequest]

\* the component shows the given view and none of its fetches is under way
ViewOpen(view, isLoading) ==
    /\ currentView = view
    /\ loading = isLoading
    /\ saving = FALSE
    /\ requests = {}
    /\ serving = NoCall
    /\ responses = {}
    /\ nextRid = 1
    /\ failed = FALSE

ClientIdle ==
    /\ entries = <<>>
    /\ exportFilters = NoFilters
    /\ filteredEntries = <<>>
    /\ lastEvent = "none"
    /\ exported = NothingExported
    /\ ViewOpen("statement", TRUE)

Init ==
    /\ store = {}
    /\ nextId = 1
    /\ now = 0
    /\ inbox = NoRequest
    /\ lastResp = NoResponse
    /\ ClientIdle

SendList == Send(Request("GET", MalformedId, NoBody)) /\ UNCHANGED clientVars

SendCreate ==
    /\ now < MaxClock
    /\ Cardinality(store) < MaxDocs
    /\ \E body \in Bodies : Send(Request("POST", MalformedId, body))
    /\ UNCHANGED clientVars

SendUpdate ==
    /\ now < MaxClock
    /\ \E id \in IdInputs, body \in Bodies : Send(Request("PUT", id, body))
    /\ UNCHANGED clientVars

SendDelete ==
    /\ \E id \in IdInputs : Send(Request("DELETE", id, NoBody))
    /\ UNCHANGED clientVars

List == \E fails \in BOOLEAN : GET(fails) /\ UNCHANGED clientVars

Create == \E fails \in BOOLEAN : POST(fails) /\ UNCHANGED clientVars

Update == \E fails \in BOOLEAN : PUT(fails) /\ UNCHANGED clientVars

Delete == \E fails \in BOOLEAN : DELETE(fails) /\ UNCHANGED clientVars

Next ==
    \/ SendList \/ SendCreate \/ SendUpdate \/ SendDelete
    \/ List \/ Create \/ Update \/ Delete

Spec == Init /\ [][Next]_vars

TypeOK ==
    /\ \A d \in store : d._id \in 1..(nextId - 1)
    /\ now \in 0..MaxClock

(***************************************************************************)
(* A collection that already holds documents written by other means, some  *)
(* without a debit or a credit field; only list requests are made          *)
(***************************************************************************)
\* the documents another writer may have left under id k
StoredDocs(k) ==
    LET full  == newEntry(Body(Str(<<49>>), Str(<<65>>), Debit40), k, 0)
        late  == newEntry(Body(Str(<<50>>), Str(<<98>>), Credit100), k, 0)
        Without(d, fs) == [f \in DOMAIN d \ fs |-> d[f]]
    IN  {full, late,
         Without(full, {"credit"}), Without(late, {"debit"}),
         Without(full, {"debit", "credit"})}

\* the collections that hold, under each id of 1..n, one of the documents
\* docs has for that id, or nothing
Collections(n, docs) ==
    LET Nothing == [_id |-> 0]
        Picks   == {c \in [1..n -> docs \cup {Nothing}] :
                       \A k \in 1..n : c[k]._id \in {0, k}}
    IN  {{c[k] : k \in 1..n} \ {Nothing} : c \in Picks}

InitStored ==
    /\ store \in Collections(MaxDocs, UNION {StoredDocs(k) : k \in 1..MaxDocs})
    /\ nextId = MaxDocs + 1
    /\ now = 0
    /\ inbox = NoRequest
    /\ lastResp = NoResponse
    /\ ClientIdle

NextStored == SendList \/ List

SpecStored == InitStored /\ [][NextStored]_vars

(***************************************************************************)
(* The statement component: the export view's search                       *)
(***************************************************************************)
\* a comparison that keeps the case
keepCase(q) == q

\* String.prototype.toLowerCase on the alphabet
toLowerCase(q) == [i \in 1..Len(q) |-> IF q[i] \in 65..90 THEN q[i] + 32 ELSE q[i]]

startsWith(text, q) ==
    /\ Len(q) <= Len(text)
    /\ SubSeq(text, 1, Len(q)) = q

\* String.prototype.includes
RECURSIVE includes(_, _)
includes(text, q) ==
    \/ startsWith(text, q)
    \/ text # <<>> /\ includes(Tail(text), q)

\* a > b
JsGt(a, b) == ~StrLe(a, b)

\* a >= b and a <= b on strings
JsGe(a, b) == StrLe(b, a)

JsLe(a, b) == StrLe(a, b)

\* a search that collects the matches of each criterion one after the other
searchResultAppending(list, filters) ==
    LET MatchesText(entry) ==
            includes(toLowerCase(entry.particulars.s), toLowerCase(filters.particulars))
        FromStart(entry) == JsGe(entry.date.s, filters.startDate)
        UntilEnd(entry) == JsLe(entry.date.s, filters.endDate)
        byText  == IF filters.particulars # <<>> THEN SelectSeq(list, MatchesText) ELSE <<>>
        byStart == IF filters.startDate # <<>> THEN SelectSeq(list, FromStart) ELSE <<>>
        byEnd   == IF filters.endDate # <<>> THEN SelectSeq(list, UntilEnd) ELSE <<>>
    IN  IF filters = NoFilters THEN list ELSE byText \o byStart \o byEnd

\* the three filter steps of handleSearch on a copy of the list
searchResult(list, filters) ==
    LET MatchesText(entry) ==
            includes(toLowerCase(entry.particulars.s), toLowerCase(filters.particulars))
        FromStart(entry) == JsGe(entry.date.s, filters.startDate)
        UntilEnd(entry) == JsLe(entry.date.s, filters.endDate)
        byText  == IF filters.particulars # <<>> THEN SelectSeq(list, MatchesText) ELSE list
        byStart == IF filters.startDate # <<>> THEN SelectSeq(byText, FromStart) ELSE byText
        byEnd   == IF filters.endDate # <<>> THEN SelectSeq(byStart, UntilEnd) ELSE byStart
    IN  byEnd

\* the export view is rendered when the list is not loading
ExportViewShown == ~loading /\ currentView = "export"

handleSearch ==
    /\ ExportViewShown
    /\ filteredEntries' = searchResult(entries, exportFilters)
    /\ lastEvent' = "search"
    /\ UNCHANGED <<entries, exportFilters, exported>>
    /\ UNCHANGED <<serverVars, sessionVars>>

\* onChange of the three filter inputs
setExportFilters(field, value) ==
    /\ ExportViewShown
    /\ exportFilters' = [exportFilters EXCEPT ![field] = value]
    /\ lastEvent' = "filters"
    /\ UNCHANGED <<entries, filteredEntries, exported>>
    /\ UNCHANGED <<serverVars, sessionVars>>

\* "", " ", "B", "aB"
QueryInputs == {<<>>, <<32>>, <<66>>, <<97, 66>>}

\* "", "1", "2"
DateBoundInputs == {<<>>, <<49>>, <<50>>}

\* "Ab", "a c"
SearchedParticulars == {Str(<<65, 98>>), Str(<<97, 32, 99>>)}

\* the documents that may be stored under id k when the list is fetched
SearchedDocs(k) ==
    {newEntry(Body(d, p, IF k % 2 = 1 THEN Credit100 ELSE Debit40), k, k) :
        d \in DateInputs, p \in SearchedParticulars}

\* the client has fetched the list of a collection of up to MaxEntries
\* documents and opened the export view
InitSearch ==
    /\ store \in Collections(MaxEntries, UNION {SearchedDocs(k) : k \in 1..MaxEntries})
    /\ nextId = MaxEntries + 1
    /\ now = MaxEntries
    /\ inbox = NoRequest
    /\ lastResp = NoResponse
    /\ \E sorted \in SortedByDate(store) : entries = processedEntries(sorted)
    /\ exportFilters = NoFilters
    /\ filteredEntries = <<>>
    /\ lastEvent = "none"
    /\ exported = NothingExported
    /\ ViewOpen("export", FALSE)

EditQuery == \E q \in QueryInputs : setExportFilters("particulars", q)

EditStartDate == \E a \in DateBoundInputs : setExportFilters("startDate", a)

EditEndDate == \E b \in DateBoundInputs : setExportFilters("endDate", b)

NextSearch == EditQuery \/ EditStartDate \/ EditEndDate \/ handleSearch

SpecSearch == InitSearch /\ [][NextSearch]_vars

(***************************************************************************)
(* The statement component: CSV export and share text                      *)
(***************************************************************************)
\* the decimal digits of a natural number
RECURSIVE Digits(_)
Digits(n) == IF n < 10 THEN <<48 + n>> ELSE Digits(n \div 10) \o <<48 + (n % 10)>>

\* Number.prototype.toString of an integer
DecimalText(n) == IF n < 0 THEN <<45>> \o Digits(-n) ELSE Digits(n)

\* the text of a value inside a template literal
TemplateText(v) ==
    CASE v.t = "number"    -> DecimalText(v.n)
      [] v.t = "string"    -> v.s
      [] v.t = "null"      -> <<110, 117, 108, 108>>
      [] v.t = "undefined" -> <<117, 110, 100, 101, 102, 105, 110, 101, 100>>
      [] OTHER             -> <<78, 97, 78>>

\* the text of an array element inside Array.prototype.join: null and
\* undefined are written as the empty string
JoinText(v) == IF v.t \in {"null", "undefined"} THEN <<>> ELSE TemplateText(v)

\* Array.prototype.join on texts
RECURSIVE join(_, _)
join(texts, sep) ==
    IF texts = <<>> THEN <<>>
    ELSE IF Len(texts) = 1 THEN texts[1]
    ELSE texts[1] \o sep \o join(Tail(texts), sep)

\* x ?? "-": only a missing value becomes the placeholder
orDashIfMissing(v) == IF v.t \in {"undefined", "null"} THEN Str(<<45>>) ELSE v

\* x || "-"
orDash(v) == IF Truthy(v) THEN v ELSE Str(<<45>>)

\* new Date(dateString).toLocaleDateString("en-GB"): dd/mm/yyyy for a
\* yyyy-mm-dd string (read at a UTC offset of zero or more), "Invalid Date"
\* for a text that is no date
formatDate(dateString) ==
    IF /\ Len(dateString) = 10
       /\ dateString[5] = 45
       /\ dateString[8] = 45
       /\ \A i \in {1, 2, 3, 4, 6, 7, 9, 10} : IsDigit(dateString[i])
    THEN SubSeq(dateString, 9, 10) \o <<47>> \o SubSeq(dateString, 6, 7)
            \o <<47>> \o SubSeq(dateString, 1, 4)
    ELSE <<73, 110, 118, 97, 108, 105, 100, 32, 68, 97, 116, 101>>

\* filteredEntries.length > 0 ? filteredEntries : entries
dataToExport(filtered, all) == IF Len(filtered) > 0 THEN filtered ELSE all

\* "Date", "Particulars", "Debit Country", "Debit (Out)", "Credit Country",
\* "Credit (In)", "Balance"
csvHeader ==
    <<<<68, 97, 116, 101>>,
      <<80, 97, 114, 116, 105, 99, 117, 108, 97, 114, 115>>,
      <<68, 101, 98, 105, 116, 32, 67, 111, 117, 110, 116, 114, 121>>,
      <<68, 101, 98, 105, 116, 32, 40, 79, 117, 116, 41>>,
      <<67, 114, 101, 100, 105, 116, 32, 67, 111, 117, 110, 116, 114, 121>>,
      <<67, 114, 101, 100, 105, 116, 32, 40, 73, 110, 41>>,
      <<66, 97, 108, 97, 110, 99, 101>>>>

csvRow(entry) ==
    <<JoinText(Field(entry, "date")),
      JoinText(Field(entry, "particulars")),
      JoinText(orDash(Field(entry, "debitCountry"))),
      JoinText(orDash(Field(entry, "debit"))),
      JoinText(orDash(Field(entry, "creditCountry"))),
      JoinText(orDash(Field(entry, "credit"))),
      JoinText(Field(entry, "balance"))>>

\* the rows joined by "," and the lines by "\n"
csvContent(data) ==
    join(<<join(csvHeader, <<44>>)>> \o [i \in 1..Len(data) |-> join(csvRow(data[i]), <<44>>)],
         <<10>>)

exportToCSV ==
    /\ ExportViewShown
    /\ exported' = [target |-> "csv",
                    text |-> csvContent(dataToExport(filteredEntries, entries))]
    /\ lastEvent' = "csv"
    /\ UNCHANGED <<entries, exportFilters, filteredEntries>>
    /\ UNCHANGED <<serverVars, sessionVars>>

\* one line of the share message
messageLine(entry) ==
    TemplateText(Field(entry, "date")) \o <<32, 124, 32>>
      \o TemplateText(Field(entry, "particulars")) \o <<32, 124, 32>>
      \o <<68, 101, 98, 105, 116, 32, 67, 111, 117, 110, 116, 114, 121, 58, 32>> \o TemplateText(orDash(Field(entry, "debitCountry")))
      \o <<32, 124, 32>> \o <<68, 101, 98, 105, 116, 58, 32>> \o TemplateText(orDash(Field(entry, "debit")))
      \o <<32, 124, 32>> \o <<67, 114, 101, 100, 105, 116, 32, 67, 111, 117, 110, 116, 114, 121, 58, 32>> \o TemplateText(orDash(Field(entry, "creditCountry")))
      \o <<32, 124, 32>> \o <<67, 114, 101, 100, 105, 116, 58, 32>> \o TemplateText(orDash(Field(entry, "credit")))
      \o <<32, 124, 32>> \o <<66, 97, 108, 97, 110, 99, 101, 58, 32>> \o TemplateText(Field(entry, "balance"))
      \o <<10>>

\* "Account Statement:\n\n" followed by the lines
RECURSIVE messageText(_)
messageText(data) ==
    IF data = <<>>
    THEN <<65, 99, 99, 111, 117, 110, 116, 32, 83, 116, 97, 116, 101, 109, 101, 110, 116, 58, 10, 10>>
    ELSE messageText(SubSeq(data, 1, Len(data) - 1)) \o messageLine(data[Len(data)])

shareViaWhatsApp ==
    /\ ExportViewShown
    /\ exported' = [target |-> "text",
                    text |-> messageText(dataToExport(filteredEntries, entries))]
    /\ lastEvent' = "share"
    /\ UNCHANGED <<entries, exportFilters, filteredEntries>>
    /\ UNCHANGED <<serverVars, sessionVars>>

\* "2024-01-02", "2024-11-30"
ExportedDates == {Str(<<50, 48, 50, 52, 45, 48, 49, 45, 48, 50>>), Str(<<50, 48, 50, 52, 45, 49, 49, 45, 51, 48>>)}

\* the documents that may be stored under id k when the list is fetched:
\* a credit of 100 (odd k) or a debit of 40 (even k), as POST stores them,
\* and the credit without its creditCountry field
ExportedDocs(k) ==
    LET posted == {newEntry(Body(d, p, IF k % 2 = 1 THEN Credit100 ELSE Debit40), k, k) :
                      d \in ExportedDates, p \in SearchedParticulars}
    IN  posted \cup {[f \in DOMAIN doc \ {"creditCountry"} |-> doc[f]] :
                        doc \in {e \in posted : e.credit # Num(0) /\ e.particulars = Str(<<65, 98>>)}}

\* the client has fetched the list of a collection of up to MaxDocs
\* documents and opened the export view
InitExport ==
    /\ store \in Collections(MaxDocs, UNION {ExportedDocs(k) : k \in 1..MaxDocs})
    /\ nextId = MaxDocs + 1
    /\ now = MaxDocs
    /\ inbox = NoRequest
    /\ lastResp = NoResponse
    /\ \E sorted \in SortedByDate(store) : entries = processedEntries(sorted)
    /\ exportFilters = NoFilters
    /\ filteredEntries = <<>>
    /\ lastEvent = "none"
    /\ exported = NothingExported
    /\ ViewOpen("export", FALSE)

NextExport == EditQuery \/ handleSearch \/ exportToCSV \/ shareViaWhatsApp

SpecExport == InitExport /\ [][NextExport]_vars

(***************************************************************************)
(* The component and the server: the statement, the add view and the       *)
(* export view                                                             *)
(***************************************************************************)
\* the form as the component serialises it: six texts, no balance
FormData(date, particulars, debit, credit) ==
    Body(date, particulars,
         [debitCountry |-> Str(<<>>), debit |-> debit,
          creditCountry |-> Str(<<>>), credit |-> credit, balance |-> Undef])

\* what the user has typed when saving: date "9", particulars "A" and a
\* credit of "100"; the same without particulars, which is not sent
FormInputs ==
    {FormData(Str(<<57>>), Str(<<65>>), Str(<<>>), Str(<<49, 48, 48>>)),
     FormData(Str(<<57>>), Str(<<>>), Str(<<>>), Str(<<49, 48, 48>>))}

\* response.ok
ok(resp) == resp.status >= 200 /\ resp.status <= 299

\* fetch(url, init) issued by the handler `from`
fetch(kind, id, body, from) ==
    /\ nextRid <= MaxRequests
    /\ requests' = requests \cup
                     {[rid |-> nextRid, from |-> from, req |-> Request(kind, id, body)]}
    /\ nextRid' = nextRid + 1

\* fetchEntries up to its await: setLoading(true) and the GET
fetchEntries(from) ==
    /\ loading' = TRUE
    /\ fetch("GET", MalformedId, NoBody, from)

\* fetchEntries after its await: setEntries(data) when the response is ok,
\* setLoading(false) in any case; then the finally block of the handler that
\* awaited it
fetchEntriesResumes(m) ==
    /\ m.call.req.kind = "GET"
    /\ IF ok(m.resp) THEN entries' = m.resp.body ELSE UNCHANGED entries
    /\ loading' = FALSE
    /\ saving' = IF m.call.from = "add" THEN FALSE ELSE saving
    /\ failed' = (failed \/ ~ok(m.resp))
    /\ UNCHANGED <<currentView, requests, nextRid>>

handleAddEntry ==
    /\ ~loading /\ currentView = "add" /\ ~saving
    /\ now < MaxClock
    /\ Cardinality(store) < MaxDocs
    /\ \E formData \in FormInputs :
          /\ ~MissingRequiredFields(formData)
          /\ fetch("POST", MalformedId, formData, "add")
    /\ saving' = TRUE
    /\ UNCHANGED <<currentView, loading, serving, responses, failed>>
    /\ UNCHANGED <<entries, exportFilters, filteredEntries, lastEvent, exported>>
    /\ UNCHANGED serverVars

\* handleAddEntry after the await of its request
addResumes(m) ==
    /\ m.call.req.kind = "POST"
    /\ failed' = (failed \/ ~ok(m.resp))
    /\ IF ok(m.resp)
       THEN /\ currentView' = "statement"
            /\ fetchEntries("add")
            /\ UNCHANGED saving
       ELSE /\ saving' = FALSE
            /\ UNCHANGED <<currentView, loading, requests, nextRid>>
    /\ UNCHANGED entries

\* the user confirms the deletion of a row of the statement
handleDeleteEntry ==
    /\ ~loading /\ currentView = "statement"
    /\ \E i \in 1..Len(entries) : fetch("DELETE", entries[i].id, NoBody, "delete")
    /\ UNCHANGED <<currentView, loading, saving, serving, responses, failed>>
    /\ UNCHANGED <<entries, exportFilters, filteredEntries, lastEvent, exported>>
    /\ UNCHANGED serverVars

\* handleDeleteEntry after the await of its request
deleteResumes(m) ==
    /\ m.call.req.kind = "DELETE"
    /\ failed' = (failed \/ ~ok(m.resp))
    /\ IF ok(m.resp)
       THEN fetchEntries("delete")
       ELSE UNCHANGED <<loading, requests, nextRid>>
    /\ UNCHANGED <<entries, currentView, saving>>

\* a response reaches the component and the handler awaiting it goes on
Resume ==
    /\ \E m \in responses :
          /\ responses' = responses \ {m}
          /\ fetchEntriesResumes(m) \/ addResumes(m) \/ deleteResumes(m)
    /\ UNCHANGED <<exportFilters, filteredEntries, lastEvent, exported, serving>>
    /\ UNCHANGED serverVars

\* setCurrentView(view) of a button
Show(view) ==
    /\ ~loading
    /\ currentView' = view
    /\ UNCHANGED <<loading, saving, requests, serving, responses, nextRid, failed>>
    /\ UNCHANGED <<entries, exportFilters, filteredEntries, lastEvent, exported>>
    /\ UNCHANGED serverVars

\* the "Add Entry" button of the statement
OpenAdd == currentView = "statement" /\ Show("add")

\* the "Export / Share" button of the statement
OpenExport == currentView = "statement" /\ Show("export")

\* the arrow of the add and export views
Back == currentView \in {"add", "export"} /\ Show("statement")

\* the Cancel button of the add view
Cancel == currentView = "add" /\ ~saving /\ Show("statement")

\* the server takes one of the requests on their way
Accept ==
    /\ serving = NoCall
    /\ \E call \in requests :
          /\ Send(call.req)
          /\ serving' = call
          /\ requests' = requests \ {call}
    /\ UNCHANGED <<entries, exportFilters, filteredEntries, lastEvent, exported>>
    /\ UNCHANGED <<currentView, loading, saving, responses, nextRid, failed>>

\* the response of the handler leaves the server
Reply ==
    /\ serving # NoCall
    /\ inbox = NoRequest
    /\ responses' = responses \cup {[call |-> serving, resp |-> lastResp]}
    /\ serving' = NoCall
    /\ lastResp' = NoResponse
    /\ UNCHANGED <<store, nextId, now, inbox>>
    /\ UNCHANGED <<entries, exportFilters, filteredEntries, lastEvent, exported>>
    /\ UNCHANGED <<currentView, loading, saving, requests, nextRid, failed>>

\* "Ab" and a credit of 100 under an odd id, "a c" and a debit of 40 under an
\* even one, dated by the id and created at time k
StatementDocs(k) ==
    {newEntry(Body(Str(<<48 + k>>),
                   IF k % 2 = 1 THEN Str(<<65, 98>>) ELSE Str(<<97, 32, 99>>),
                   IF k % 2 = 1 THEN Credit100 ELSE Debit40), k, k)}

\* the component has mounted and the fetchEntries of its effect has come
\* back with the list: the statement is shown
InitClient ==
    /\ store \in Collections(MaxDocs, UNION {StatementDocs(k) : k \in 1..MaxDocs})
    /\ nextId = MaxDocs + 1
    /\ now = MaxDocs
    /\ inbox = NoRequest
    /\ lastResp = NoResponse
    /\ \E sorted \in SortedByDate(store) : entries = processedEntries(sorted)
    /\ exportFilters = NoFilters
    /\ filteredEntries = <<>>
    /\ lastEvent = "none"
    /\ exported = NothingExported
    /\ ViewOpen("statement", FALSE)

NextClient ==
    \/ handleAddEntry \/ handleDeleteEntry \/ Resume
    \/ OpenAdd \/ OpenExport \/ Back \/ Cancel \/ handleSearch
    \/ Accept \/ List \/ Create \/ Delete \/ Reply

SpecClient == InitClient /\ [][NextClient]_vars

(***************************************************************************)
(* Properties of the request handlers                                      *)
(***************************************************************************)
Ids(docs) == {d._id : d \in docs}

DocOf(docs, idText) == CHOOSE d \in docs : ObjectIdToString(d._id) = idText

\* credit - debit of a listed entry, as integers
Delta(e) == e.credit.n - e.debit.n

RECURSIVE SumTo(_, _)
SumTo(list, i) == IF i = 0 THEN 0 ELSE SumTo(list, i - 1) + Delta(list[i])

Handled == inbox # NoRequest /\ inbox' = NoRequest

\* C1: a list request answered without store failure succeeds (also on the
\* empty collection, with the empty list) and returns every stored entry
\* once, ascending by date, the i-th balance being the sum of credit - debit
\* over entries 1..i of the returned sequence.
C1_ListIsRunningFold ==
    lastResp.kind = "GET" =>
        /\ lastResp.caught = "none" => lastResp.status = 200
        /\ lastResp.status = 200 =>
            LET r == lastResp.body
            IN  /\ Len(r) = Cardinality(store)
                /\ store = {} => r = <<>>
                /\ \A i, j \in 1..Len(r) : i # j => r[i].id # r[j].id
                /\ \A i, j \in 1..Len(r) : i < j => StrLe(r[i].date.s, r[j].date.s)
                /\ \A i \in 1..Len(r) :
                      /\ \E d \in store :
                            /\ r[i].id = ObjectIdToString(d._id)
                            /\ \A f \in DOMAIN d \ {"_id"} : r[i][f] = d[f]
                      /\ r[i].balance = Num(SumTo(r, i))

C1_Witness ==
    /\ lastResp.kind = "GET"
    /\ lastResp.status = 200
    /\ Len(lastResp.body) = 2
    /\ lastResp.body[1].balance = Num(100)
    /\ lastResp.body[2].balance = Num(60)

\* C2: no stored document carries a balance field, and each balance of a
\* list response is the sum of credit - debit over the documents now in the
\* collection that the response lists at or before that position.
C2_BalanceDerivedNotStored ==
    /\ \A d \in store : "balance" \notin DOMAIN d
    /\ (lastResp.kind = "GET" /\ lastResp.status = 200) =>
          LET r == lastResp.body
              Upto(i) == [j \in 1..i |-> DocOf(store, r[j].id)]
          IN  /\ {r[i].id : i \in 1..Len(r)} = {ObjectIdToString(d._id) : d \in store}
              /\ \A i \in 1..Len(r) : r[i].balance.n = SumTo(Upto(i), i)

\* an entry with credit 100 was created first and deleted; the surviving
\* debit of 40 is listed with balance -40
C2_Witness ==
    /\ nextId = 3
    /\ now = 2
    /\ \E d \in store :
          /\ store = {d}
          /\ d._id = 2
          /\ d.debit = Num(40)
          /\ d.credit = Num(0)
          /\ d.debitCountry = Num(7)
    /\ lastResp.kind = "GET"
    /\ lastResp.status = 200
    /\ Len(lastResp.body) = 1
    /\ lastResp.body[1].balance = Num(-40)

\* C3: every stored document has non-empty particulars and a non-zero
\* debit or credit.
C3_RequiredFieldsPersisted ==
    \A d \in store :
        /\ d.particulars.t = "string"
        /\ d.particulars.s # <<>>
        /\ d.debit.n # 0 \/ d.credit.n # 0

\* C4: an update (with valid fields) or delete naming an id that no stored
\* document has is answered 404, unless the store itself failed.
C4_UnknownIdIsNotFound ==
    [][(/\ Handled
        /\ inbox.kind \in {"PUT", "DELETE"}
        /\ inbox.kind = "PUT" => ~MissingRequiredFields(inbox.body)
        /\ ~\E d \in store : ObjectIdToString(d._id) = inbox.id
        /\ lastResp'.caught # "store")
       => lastResp'.status = 404]_vars

\* the fields a create or update request asks to be stored
Requested(body) ==
    [date |-> body.date,
     particulars |-> body.particulars,
     debitCountry |-> NumberOrZero(body.debitCountry),
     debit |-> NumberOrZero(body.debit),
     creditCountry |-> NumberOrZero(body.creditCountry),
     credit |-> NumberOrZero(body.credit)]

Carries(d, data) == \A f \in DOMAIN data : f \in DOMAIN d /\ d[f] = data[f]

\* C5: a request answered with an error status leaves the collection as it
\* was; a request answered with success has applied all of its change: the
\* created document carries every requested field, the updated document
\* carries every requested field, the deleted document is gone.
C5_NoPartialMutation ==
    [][Handled =>
        /\ lastResp'.status >= 400 => store' = store
        /\ (lastResp'.status < 400 /\ inbox.kind = "GET") => store' = store
        /\ (lastResp'.status < 400 /\ inbox.kind = "POST") =>
              \E d \in store' :
                  /\ d \notin store
                  /\ store' = store \cup {d}
                  /\ Carries(d, Requested(inbox.body))
        /\ (lastResp'.status < 400 /\ inbox.kind = "PUT") =>
              \E d \in store' :
                  /\ ObjectIdToString(d._id) = inbox.id
                  /\ Carries(d, Requested(inbox.body))
                  /\ store' \ {d} = store \ {DocOf(store, inbox.id)}
        /\ (lastResp'.status < 400 /\ inbox.kind = "DELETE") =>
              /\ store' = store \ {DocOf(store, inbox.id)}
              /\ store' # store]_vars

\* an update of an unknown id was answered 404 with other documents stored
C5_Witness ==
    /\ lastResp.kind = "PUT"
    /\ lastResp.status = 404
    /\ store # {}

\* C6: a successful update keeps the number of documents and their ids,
\* leaves every other document as it was, and keeps the updated document's
\* id, creation timestamp and set of fields; ids are unique, and a document
\* that appears gets an id no document had before.
C6_UpdateFrame ==
    [][/\ \A d1, d2 \in store' : d1._id = d2._id => d1 = d2
       /\ \A d \in store' : d._id \notin Ids(store) => d._id >= nextId /\ nextId' > d._id
       /\ (Handled /\ inbox.kind = "PUT" /\ lastResp'.status = 200) =>
             /\ Cardinality(store') = Cardinality(store)
             /\ Ids(store') = Ids(store)
             /\ \A d \in store : ObjectIdToString(d._id) # inbox.id => d \in store'
             /\ \A d \in store, e \in store' :
                   d._id = e._id => /\ DOMAIN e = DOMAIN d
                                    /\ e.createdAt = d.createdAt]_vars

\* an update succeeded on one of two stored documents and changed it
C6_Witness ==
    /\ lastResp.kind = "PUT"
    /\ lastResp.status = 200
    /\ Cardinality(store) = 2
    /\ \E d \in store : d.updatedAt # d.createdAt

(***************************************************************************)
(* Properties of the list of a collection written by other means           *)
(***************************************************************************)
\* an amount of a listed entry, a missing one counted as 0
AmountOrZero(e, f) == IF f \in DOMAIN e THEN e[f].n ELSE 0

RECURSIVE SumOrZeroTo(_, _)
SumOrZeroTo(list, i) ==
    IF i = 0 THEN 0
    ELSE SumOrZeroTo(list, i - 1) + AmountOrZero(list[i], "credit")
                                  - AmountOrZero(list[i], "debit")

\* C10: a list request answered without store failure succeeds and every
\* balance is a number, the running sum of credit - debit with a missing
\* debit or credit counted as 0.
C10_MissingAmountsCountAsZero ==
    (lastResp.kind = "GET" /\ lastResp.caught = "none") =>
        /\ lastResp.status = 200
        /\ \A i \in 1..Len(lastResp.body) :
              lastResp.body[i].balance = Num(SumOrZeroTo(lastResp.body, i))

(***************************************************************************)
(* Properties of the search                                                *)
(***************************************************************************)
Range(list) == {list[i] : i \in 1..Len(list)}

\* sub picks entries of list at strictly increasing positions
IsSubsequence(sub, list) ==
    \E pos \in [1..Len(sub) -> 1..Len(list)] :
        /\ \A i, j \in 1..Len(sub) : i < j => pos[i] < pos[j]
        /\ \A i \in 1..Len(sub) : sub[i] = list[pos[i]]

\* q occurs in text at some offset, letter case aside
OccursIgnoringCase(q, text) ==
    \E k \in 0..(Len(text) - Len(q)) :
        \A i \in 1..Len(q) :
            LET a == text[k + i]
                b == q[i]
            IN  \/ a = b
                \/ a \in 65..90 /\ b = a + 32
                \/ b \in 65..90 /\ a = b + 32

DateAtLeast(e, a) == a = <<>> \/ StrLe(a, e.date.s)

DateAtMost(e, b) == b = <<>> \/ StrLe(e.date.s, b)

\* C7: the result of a search is a subsequence of the entry list (entries of
\* the list, each position used at most once, in list order), and the search
\* leaves the entry list as it was.
C7_SearchIsSubsequence ==
    [][lastEvent' = "search" =>
          /\ IsSubsequence(filteredEntries', entries)
          /\ entries' = entries]_vars

\* a search kept the first and the last of three entries and dropped the
\* one between them
C7_Witness ==
    /\ lastEvent = "search"
    /\ Len(entries) = 3
    /\ filteredEntries = <<entries[1], entries[3]>>

\* C8: the result of a search with query q, start date a and end date b is
\* the list restricted to the entries that are in all three of: the result
\* for q alone, the entries dated a or later (all when a is empty), the
\* entries dated b or earlier (all when b is empty); with every criterion
\* empty the result is the whole list.
C8_FilterConjunctive ==
    lastEvent = "search" =>
        LET f == exportFilters
            byText == searchResult(entries, [NoFilters EXCEPT !.particulars = f.particulars])
            InAll(e) == /\ e \in Range(byText)
                        /\ DateAtLeast(e, f.startDate)
                        /\ DateAtMost(e, f.endDate)
        IN  /\ filteredEntries = SelectSeq(entries, InAll)
            /\ f = NoFilters => filteredEntries = entries

\* a search with all three criteria set kept an entry dated exactly at both
\* bounds and dropped one for its text and one for its date
C8_Witness ==
    /\ lastEvent = "search"
    /\ exportFilters.particulars # <<>>
    /\ exportFilters.startDate # <<>>
    /\ exportFilters.endDate = exportFilters.startDate
    /\ Len(entries) = 3
    /\ Len(filteredEntries) = 1
    /\ filteredEntries[1].date.s = exportFilters.startDate
    /\ \E e \in Range(entries) : e.date.s = exportFilters.startDate /\ e \notin Range(filteredEntries)
    /\ \E e \in Range(entries) : e.date.s # exportFilters.startDate

\* C9 as stated: a query that is empty after trimming excludes no entry,
\* any other query keeps the entries whose particulars contain it, letter
\* case aside.
C9_BlankQueryIsAbsent ==
    lastEvent = "search" =>
        LET f == exportFilters
            q == TrimEnd(TrimStart(f.particulars))
            Kept(e) == /\ q = <<>> \/ OccursIgnoringCase(q, e.particulars.s)
                       /\ DateAtLeast(e, f.startDate)
                       /\ DateAtMost(e, f.endDate)
        IN  filteredEntries = SelectSeq(entries, Kept)

\* C9 amended: the text criterion applies when the query is a non-empty
\* string, untrimmed: the entries kept are those whose particulars contain
\* the query as typed, letter case aside, so a query of white space keeps
\* only particulars containing that white space.
C9_QueryMatchedAsTyped ==
    lastEvent = "search" =>
        LET f == exportFilters
            Kept(e) == /\ f.particulars = <<>> \/ OccursIgnoringCase(f.particulars, e.particulars.s)
                       /\ DateAtLeast(e, f.startDate)
                       /\ DateAtMost(e, f.endDate)
        IN  filteredEntries = SelectSeq(entries, Kept)

\* a search for " " dropped an entry without a space and kept one with it
C9_Witness ==
    /\ lastEvent = "search"
    /\ exportFilters = [NoFilters EXCEPT !.particulars = <<32>>]
    /\ filteredEntries # <<>>
    /\ \E e \in Range(entries) : e \notin Range(filteredEntries)

(***************************************************************************)
(* Properties of the export                                                *)
(***************************************************************************)
\* the pieces of text between occurrences of the code unit c
RECURSIVE Split(_, _)
Split(text, c) ==
    IF \A i \in 1..Len(text) : text[i] # c
    THEN <<text>>
    ELSE LET k == CHOOSE i \in 1..Len(text) :
                      text[i] = c /\ \A j \in 1..(i - 1) : text[j] # c
         IN  <<SubSeq(text, 1, k - 1)>> \o Split(SubSeq(text, k + 1, Len(text)), c)

\* the rows of the export view
Shown == IF filteredEntries # <<>> THEN filteredEntries ELSE entries

\* the data lines of the exported text: after the header row of the CSV,
\* after the title and the empty line of the share message
DataLines ==
    LET lines == Split(exported.text, 10)
    IN  IF exported.target = "csv"
        THEN SubSeq(lines, 2, Len(lines))
        ELSE SubSeq(lines, 3, Len(lines) - 1)

\* the columns of a data line
Columns(line) ==
    IF exported.target = "csv"
    THEN Split(line, 44)
    ELSE LET fields == Split(line, 124)
         IN  [k \in 1..Len(fields) |-> TrimEnd(TrimStart(fields[k]))]

IsStorageDate(text) == Len(text) = 10 /\ text[5] = 45 /\ text[8] = 45

\* C11: in the CSV and in the share text the date column of every entry is
\* the dd/mm/yyyy rendering of the entry's date, never its yyyy-mm-dd form.
C11_DatesInDisplayFormat ==
    lastEvent \in {"csv", "share"} =>
        /\ Len(DataLines) = Len(Shown)
        /\ \A i \in 1..Len(DataLines) :
              LET cell == Columns(DataLines[i])[1]
              IN  /\ cell = formatDate(Shown[i].date.s)
                  /\ ~IsStorageDate(cell)

\* an amount column: the placeholder for a zero or missing amount
AmountText(e, f) ==
    IF f \notin DOMAIN e \/ e[f].t # "number" \/ e[f].n = 0
    THEN <<45>>
    ELSE DecimalText(e[f].n)

\* the label that precedes column k in a line of the share text
ShareLabel(k) ==
    CASE k = 3 -> <<68, 101, 98, 105, 116, 32, 67, 111, 117, 110, 116, 114, 121, 58, 32>>
      [] k = 4 -> <<68, 101, 98, 105, 116, 58, 32>>
      [] k = 5 -> <<67, 114, 101, 100, 105, 116, 32, 67, 111, 117, 110, 116, 114, 121, 58, 32>>
      [] k = 6 -> <<67, 114, 101, 100, 105, 116, 58, 32>>
      [] k = 7 -> <<66, 97, 108, 97, 110, 99, 101, 58, 32>>
      [] OTHER -> <<>>

AmountFields == <<"debitCountry", "debit", "creditCountry", "credit">>

\* C12: each exported line has seven columns in the order date, particulars,
\* debitCountry, debit, creditCountry, credit, balance (the CSV header names
\* them in that order, the share text labels them); an amount that is zero
\* or missing is written "-" and never "0".
C12_PlaceholderAndColumnOrder ==
    lastEvent \in {"csv", "share"} =>
        /\ Len(DataLines) = Len(Shown)
        /\ exported.target = "csv" =>
              Split(Split(exported.text, 10)[1], 44) =
                 <<<<68, 97, 116, 101>>, <<80, 97, 114, 116, 105, 99, 117, 108, 97, 114, 115>>, <<68, 101, 98, 105, 116, 32, 67, 111, 117, 110, 116, 114, 121>>, <<68, 101, 98, 105, 116, 32, 40, 79, 117, 116, 41>>,
                   <<67, 114, 101, 100, 105, 116, 32, 67, 111, 117, 110, 116, 114, 121>>, <<67, 114, 101, 100, 105, 116, 32, 40, 73, 110, 41>>, <<66, 97, 108, 97, 110, 99, 101>>>>
        /\ \A i \in 1..Len(DataLines) :
              LET cells == Columns(DataLines[i])
                  e     == Shown[i]
                  Label(k) == IF exported.target = "csv" THEN <<>> ELSE ShareLabel(k)
              IN  /\ Len(cells) = 7
                  /\ cells[1] \in {e.date.s, formatDate(e.date.s)}
                  /\ cells[2] = e.particulars.s
                  /\ \A k \in 3..6 :
                        /\ cells[k] = Label(k) \o AmountText(e, AmountFields[k - 2])
                        /\ cells[k] # Label(k) \o <<48>>
                  /\ cells[7] = Label(7) \o DecimalText(e.balance.n)

\* a CSV was exported with an entry that has no creditCountry and a zero
\* debit, and an entry with a debit of 40
C12_Witness ==
    /\ lastEvent = "csv"
    /\ exported.target = "csv"
    /\ \E e \in Range(Shown) : "creditCountry" \notin DOMAIN e /\ e.debit = Num(0)
    /\ \E e \in Range(Shown) : e.debit = Num(40) /\ e.credit = Num(0)

\* the entries that satisfy the filter
Satisfying(list, f) ==
    LET Kept(e) == /\ f.particulars = <<>> \/ OccursIgnoringCase(f.particulars, e.particulars.s)
                   /\ DateAtLeast(e, f.startDate)
                   /\ DateAtMost(e, f.endDate)
    IN  SelectSeq(list, Kept)

\* C13: an export made right after a search writes exactly the entries of
\* the list that satisfy the filter, none when none satisfies it.
C13_ExportIsSearchResult ==
    [][(lastEvent = "search" /\ lastEvent' \in {"csv", "share"}) =>
          LET rows == Satisfying(entries, exportFilters)
          IN  /\ lastEvent' = "csv" => exported'.text = csvContent(rows)
              /\ lastEvent' = "share" => exported'.text = messageText(rows)]_vars

(***************************************************************************)
(* Properties of the component and the server                              *)
(***************************************************************************)
\* C14: every row the export view shows, which is every row it exports, is
\* an entry of the list the component fetched last, with the same field
\* values and balance
C14_ExportRowsAreFetched ==
    ExportViewShown => \A i \in 1..Len(Shown) : Shown[i] \in Range(entries)

\* none of the component's fetches is on its way, being handled or answered
\* and not yet received
NothingInFlight == requests = {} /\ serving = NoCall /\ responses = {}

\* the listings GET would answer with now
Listings == {processedEntries(sorted) : sorted \in SortedByDate(store)}

\* C15: once no request is in flight and every response was ok, the list
\* the component holds is the listing of the store, balances included
C15_ClientConverges ==
    (NothingInFlight /\ ~failed) => entries \in Listings

====
